---- MODULE Spec2Model ----
(***************************************************************************)
(* Model of the extension registry of Suginami_bot (core/loader.py,        *)
(* CogsLoader) together with the part of the discord.py extension table    *)
(* it drives (bot.load_extension / unload_extension / reload_extension).   *)
(*                                                                         *)
(* All coroutines run on one asyncio event loop.  A coroutine runs without *)
(* interruption up to an await that really suspends; every action below is *)
(* one such uninterrupted stretch.  The host primitives check their        *)
(* precondition (is the name in the extension table?) when they are        *)
(* called and change the extension table when they return; in between the  *)
(* extension's setup()/teardown code may suspend.                           *)
(***************************************************************************)
EXTENDS Naturals, Sequences, FiniteSets, TLC

(* ------------------------------ bounds -------------------------------- *)
\* number of admin commands (single-item operations) that may be in flight
MaxCmds == 2
\* cap on the length of loaded_cogs
MaxLoaded == 2

(* ----------------------- paths and identifiers ------------------------ *)
\* A file or directory name is the sequence of its '.'-separated pieces:
\* "a.py" is <<"a","py">>, "a.b.py" is <<"a","b","py">>, "_hidden" is
\* <<"_hidden">>.  A pure path is [anchor, names]: anchor "/" for an
\* absolute path, "" for a relative one.  A module path (extension
\* identifier) is the sequence of the '.'-separated pieces of its string.
UnderscorePieces == {"_skip", "_hidden", "_deep", "_pkg", "__init__", "__pycache__"}

\* str.startswith('_')
startswith_underscore(name) == Head(name) \in UnderscorePieces

\* str.endswith(".py")
endswith_py(name) == Len(name) >= 2 /\ name[Len(name)] = "py"

\* Path.cwd(): the directory the bot is started from
cwd == [anchor |-> "/", names |-> << <<"srv">> >>]

\* self.cogs_dir.resolve() for cogs_directory = "cogs"
cogs_dir_in_cwd == [anchor |-> "/", names |-> << <<"srv">>, <<"cogs">> >>]

\* Path(root) / file
joinpath(path, name) == [path EXCEPT !.names = Append(@, name)]

IsPrefix(s, t) == Len(s) <= Len(t) /\ SubSeq(t, 1, Len(s)) = s

\* PurePath.relative_to(other) raises ValueError when other is no prefix
relative_to_raises(path, other) ==
    ~(path.anchor = other.anchor /\ IsPrefix(other.names, path.names))

relative_to(path, other) ==
    [anchor |-> "", names |-> SubSeq(path.names, Len(other.names) + 1, Len(path.names))]

\* PurePath.with_suffix(''): drops the last '.'-piece of the final name,
\* when the final name has a suffix
with_suffix_empty(path) ==
    LET n == Len(path.names)
        last == path.names[n]
    IN  IF Len(last) >= 2 /\ ~(Len(last) = 2 /\ last[1] = "")
        THEN [path EXCEPT !.names[n] = SubSeq(last, 1, Len(last) - 1)]
        ELSE path

RECURSIVE Flatten(_)
Flatten(names) == IF names = <<>> THEN <<>> ELSE Head(names) \o Flatten(Tail(names))

\* str(path).replace(os.sep, '.'): the pieces of all names in a row; the
\* leading separator of an absolute path becomes a leading '.', that is an
\* empty first piece
str_replace_sep(path) ==
    IF path.anchor = "/" THEN <<"">> \o Flatten(path.names) ELSE Flatten(path.names)

_path_to_module(file_path) ==
    LET relative_path == IF relative_to_raises(file_path, cwd)
                         THEN file_path
                         ELSE relative_to(file_path, cwd)
    IN  str_replace_sep(with_suffix_empty(relative_path))

(* --------------------------- discovery -------------------------------- *)
\* A directory is [files, dirs]: the names of its files and its
\* subdirectories [name, sub], in the order os.walk lists them.
EmptyDir == [files |-> <<>>, dirs |-> <<>>]

\* a module beside a package: a.py, a/b.py, and what discovery leaves
\* out: _skip.py, notes.txt, _hidden/c.py
TreePlain ==
    [files |-> << <<"a","py">>, <<"_skip","py">>, <<"notes","txt">> >>,
     dirs  |-> << [name |-> <<"_hidden">>, sub |-> [files |-> << <<"c","py">> >>, dirs |-> <<>>]],
                  [name |-> <<"a">>, sub |-> [files |-> << <<"b","py">> >>, dirs |-> <<>>]] >>]

\* a dotted file name beside a package: a.b.py and a/b.py
TreeDotted ==
    [files |-> << <<"a","b","py">> >>,
     dirs  |-> << [name |-> <<"a">>, sub |-> [files |-> << <<"b","py">> >>, dirs |-> <<>>]] >>]

\* what can be on disk when discovery runs: [exists, root, tree]
Disks ==
    { [exists |-> FALSE, root |-> cogs_dir_in_cwd, tree |-> EmptyDir],
      [exists |-> TRUE,  root |-> cogs_dir_in_cwd, tree |-> EmptyDir],
      [exists |-> TRUE,  root |-> cogs_dir_in_cwd, tree |-> TreePlain],
      [exists |-> TRUE,  root |-> cogs_dir_in_cwd, tree |-> TreeDotted] }

\* the test that takes every Python file
is_cog_file_any_py(file) == endswith_py(file)

\* if file.endswith(".py") and not file.startswith("_")
is_cog_file(file) == endswith_py(file) /\ ~startswith_underscore(file)

RECURSIVE SelectFiles(_, _)
SelectFiles(root, files) ==
    IF files = <<>> THEN <<>>
    ELSE LET file == Head(files)
         IN  (IF is_cog_file(file)
              THEN <<joinpath(root, file)>> ELSE <<>>)
             \o SelectFiles(root, Tail(files))

RECURSIVE os_walk(_, _)
RECURSIVE WalkDirs(_, _)
\* for root, dirs, files in os.walk(...): the files kept of this directory,
\* then the walk of every subdirectory that is not pruned
os_walk(root, dir) == SelectFiles(root, dir.files) \o WalkDirs(root, dir.dirs)

WalkDirs(root, dirs) ==
    IF dirs = <<>> THEN <<>>
    ELSE LET d == Head(dirs)
         IN  (IF ~startswith_underscore(d.name)
              THEN os_walk(joinpath(root, d.name), d.sub) ELSE <<>>)
             \o WalkDirs(root, Tail(dirs))

_get_cog_files(disk) ==
    IF ~disk.exists THEN <<>> ELSE os_walk(disk.root, disk.tree)

\* the entries of a listing with their positions in S, in their order
RECURSIVE Pick(_, _, _)
Pick(seq, S, k) ==
    IF k > Len(seq) THEN <<>>
    ELSE (IF k \in S THEN <<seq[k]>> ELSE <<>>) \o Pick(seq, S, k + 1)

SubLists(seq) == { Pick(seq, S, 1) : S \in SUBSET (1 .. Len(seq)) }

\* the files and the directories a cogs directory is made up of in the
\* runs that look at discovery: a.py, b.py, _skip.py, notes.txt;
\* _hidden/c.py, a/__init__.py, a/b.py, pkg/_deep/d.py, _pkg/sub/e.py
FileList == << <<"a","py">>, <<"b","py">>, <<"_skip","py">>, <<"notes","txt">> >>

DirList ==
    << [name |-> <<"_hidden">>, sub |-> [files |-> << <<"c","py">> >>, dirs |-> <<>>]],
       [name |-> <<"a">>,
        sub |-> [files |-> << <<"__init__","py">>, <<"b","py">> >>, dirs |-> <<>>]],
       [name |-> <<"pkg">>,
        sub |-> [files |-> <<>>,
                 dirs |-> << [name |-> <<"_deep">>,
                              sub |-> [files |-> << <<"d","py">> >>, dirs |-> <<>>]] >>]],
       [name |-> <<"_pkg">>,
        sub |-> [files |-> <<>>,
                 dirs |-> << [name |-> <<"sub">>,
                              sub |-> [files |-> << <<"e","py">> >>, dirs |-> <<>>]] >>]] >>

\* the root with a.py, b.py, _skip.py and _hidden/c.py
TreeScenario ==
    [files |-> << <<"a","py">>, <<"b","py">>, <<"_skip","py">> >>,
     dirs  |-> << [name |-> <<"_hidden">>, sub |-> [files |-> << <<"c","py">> >>, dirs |-> <<>>]] >>]

(* ------------------- exceptions and their handlers -------------------- *)
\* the exceptions of discord.ext.commands the extension calls raise; all
\* are subclasses of Exception, ExtensionFailed stands for any other fault
Exceptions ==
    {"ExtensionAlreadyLoaded", "ExtensionNotLoaded", "ExtensionNotFound",
     "NoEntryPointError", "ExtensionFailed"}

\* load_cog without its last clause, 'except Exception'
load_cog_except_no_catch_all(exc) ==
    CASE exc = "ExtensionAlreadyLoaded" -> "False"
      [] exc = "ExtensionNotFound"      -> "False"
      [] exc = "NoEntryPointError"      -> "False"
      [] OTHER                          -> "raise"

\* load_cog taking an extension that is already loaded for a success
load_cog_except_already_true(exc) ==
    CASE exc = "ExtensionAlreadyLoaded" -> "True"
      [] exc \in Exceptions             -> "False"
      [] OTHER                          -> "raise"

\* the except clauses of load_cog, in order: what the call returns
\* ("raise" when no clause catches the exception)
load_cog_except(exc) ==
    CASE exc = "ExtensionAlreadyLoaded" -> "False"
      [] exc = "ExtensionNotFound"      -> "False"
      [] exc = "NoEntryPointError"      -> "False"
      [] exc \in Exceptions             -> "False"
      [] OTHER                          -> "raise"

\* unload_cog taking an extension that is not loaded for a success
unload_cog_except_not_loaded_true(exc) ==
    CASE exc = "ExtensionNotLoaded" -> "True"
      [] exc \in Exceptions         -> "False"
      [] OTHER                      -> "raise"

\* the except clauses of unload_cog
unload_cog_except(exc) ==
    CASE exc = "ExtensionNotLoaded" -> "False"
      [] exc \in Exceptions         -> "False"
      [] OTHER                      -> "raise"

\* reload_cog without the fall back to load_cog
reload_cog_except_no_fallback(exc) ==
    CASE exc \in Exceptions -> "False"
      [] OTHER              -> "raise"

\* the except clauses of reload_cog: "load_cog" is the fall back to
\* self.load_cog(cog_path)
reload_cog_except(exc) ==
    CASE exc = "ExtensionNotLoaded" -> "load_cog"
      [] exc \in Exceptions         -> "False"
      [] OTHER                      -> "raise"

(* ------------------------------ state --------------------------------- *)
\* the module paths an administrator types, and the ones discovery yields:
\* "cogs.a", "cogs.a.b"
CogPaths == { <<"cogs","a">>, <<"cogs","a","b">> }

VARIABLES
    loaded_cogs,   \* CogsLoader.loaded_cogs: the Loaded Set, a list
    extensions,    \* the bot's extension table: the module paths active in the host
    tasks,         \* the single-item coroutines: admin commands and children of a bulk call
    batch          \* the bulk call in flight (load_all_cogs or reload_all_cogs)

vars == <<loaded_cogs, extensions, tasks, batch>>

\* children of a bulk call: one per discovered file or per loaded cog
MaxChildren == IF MaxLoaded > 2 THEN MaxLoaded ELSE 2

\* one child of a bulk call per discovered file: the disks with more files
\* than that are left out
DiscoveryDisks ==
    { disk \in { [exists |-> TRUE, root |-> cogs_dir_in_cwd,
                  tree |-> [files |-> files, dirs |-> dirs]] :
                     files \in SubLists(FileList), dirs \in SubLists(DirList) }
                \cup { [exists |-> FALSE, root |-> cogs_dir_in_cwd, tree |-> EmptyDir] } :
        Len(_get_cog_files(disk)) <= MaxChildren }

CmdTasks == 1 .. MaxCmds
ChildTasks == (MaxCmds + 1) .. (MaxCmds + MaxChildren)
TaskIds == CmdTasks \cup ChildTasks

NoPath == <<>>
NoFile == [anchor |-> "", names |-> <<>>]

\* a list as a caller holds it: a reference to self.loaded_cogs (ref), or
\* a list of its own with these items
NoValue == [ref |-> FALSE, items |-> <<>>]

\* a coroutine: op is the Registry operation it runs, inner is "load_cog"
\* once reload_cog has fallen back to load_cog, pc the await it is
\* suspended in ("new": created by gather, not started), result what the
\* operation returned ("raise": an exception left it), exc the exception
\* the host primitive raised; loaded is the value get_loaded_cogs returned
\* to the command !loaded_cogs and embed the module paths the command wrote
\* into its answer at that moment
IdleTask ==
    [op |-> "none", inner |-> "none", cog_path |-> NoPath, file_path |-> NoFile,
     pc |-> "idle", result |-> "none", exc |-> "none",
     loaded |-> NoValue, embed |-> <<>>]

NoResults == [success |-> <<>>, failed |-> <<>>, total |-> 0]

\* no directory looked at
NoDisk == [exists |-> FALSE, root |-> cogs_dir_in_cwd, tree |-> EmptyDir]

\* the bulk call: n is the number of coroutines handed to asyncio.gather,
\* cogs_to_reload the copy of the list reload_all_cogs works from, arrival
\* the children of gather in the order in which they came to be done, disk
\* the cogs directory as load_all_cogs found it
IdleBatch ==
    [op |-> "none", pc |-> "idle", n |-> 0, results |-> NoResults,
     cogs_to_reload |-> <<>>, arrival |-> <<>>, disk |-> NoDisk]

Init ==
    /\ loaded_cogs = <<>>
    /\ extensions = {}
    /\ tasks = [t \in TaskIds |-> IdleTask]
    /\ batch = IdleBatch

(* ------------------------ list operations ----------------------------- *)
\* cog_path in self.loaded_cogs
InList(list, x) == \E k \in 1 .. Len(list) : list[k] = x

\* list.remove(x): removes the first occurrence of x
list_remove(list, x) ==
    LET k == CHOOSE j \in 1 .. Len(list) :
                 list[j] = x /\ \A i \in 1 .. (j - 1) : list[i] # x
    IN  SubSeq(list, 1, k - 1) \o SubSeq(list, k + 1, Len(list))

\* handing out self.loaded_cogs itself
list_by_reference(list) == [ref |-> TRUE, items |-> <<>>]

\* self.loaded_cogs.copy(): a new list with the same items
list_copy(list) == [ref |-> FALSE, items |-> list]

\* what a caller reads through the value it holds
deref(value) == IF value.ref THEN loaded_cogs ELSE value.items

\* get_loaded_cogs
get_loaded_cogs == list_copy(loaded_cogs)

(* -------------------- single-item operations -------------------------- *)
Finished(task, result, exc) ==
    [task EXCEPT !.pc = "done", !.result = result, !.exc = exc]

\* load_cog up to its await: load_extension raises ExtensionAlreadyLoaded at
\* once when the name is in the extension table, else it imports the module
\* and awaits its setup()
load_cog_call(task) ==
    IF task.cog_path \in extensions
    THEN Finished(task, load_cog_except("ExtensionAlreadyLoaded"), "ExtensionAlreadyLoaded")
    ELSE [task EXCEPT !.pc = "load_extension"]

\* unload_cog up to its await: unload_extension raises ExtensionNotLoaded at
\* once when the name is not in the extension table
unload_cog_call(task) ==
    IF task.cog_path \notin extensions
    THEN Finished(task, unload_cog_except("ExtensionNotLoaded"), "ExtensionNotLoaded")
    ELSE [task EXCEPT !.pc = "unload_extension"]

\* reload_cog up to its await: reload_extension raises ExtensionNotLoaded at
\* once when the name is not in the extension table, and the handler then
\* runs load_cog
reload_cog_call(task) ==
    IF task.cog_path \notin extensions
    THEN IF reload_cog_except("ExtensionNotLoaded") = "load_cog"
         THEN load_cog_call([task EXCEPT !.inner = "load_cog"])
         ELSE Finished(task, reload_cog_except("ExtensionNotLoaded"), "ExtensionNotLoaded")
    ELSE [task EXCEPT !.pc = "reload_extension"]

\* putting the path at the front of the list
load_cog_insert_front(list, cog_path) == <<cog_path>> \o list

\* self.loaded_cogs.append(cog_path)
load_cog_append(list, cog_path) == Append(list, cog_path)

\* if cog_path in self.loaded_cogs: self.loaded_cogs.remove(cog_path)
unload_cog_remove(list, cog_path) ==
    IF InList(list, cog_path) THEN list_remove(list, cog_path) ELSE list

\* reload_cog dropping the path from the list, as unload_cog does
reload_cog_drop(list, cog_path) == unload_cog_remove(list, cog_path)

\* reload_cog leaves self.loaded_cogs alone
reload_cog_keep(list, cog_path) == list

(* --------------------------- scheduling ------------------------------- *)
Child(k) == MaxCmds + k

Children == { Child(k) : k \in 1 .. batch.n }

\* asyncio.gather schedules the children back to back: once the first has
\* started, each runs up to its first suspension before the next starts,
\* and nothing else runs until all have started
Dispatching ==
    /\ batch.pc = "gather"
    /\ \E t \in Children : tasks[t].pc # "new"
    /\ \E t \in Children : tasks[t].pc = "new"

\* the child that started last: while the children are being started only
\* it can go on (an await that does not suspend)
LastStarted(t) ==
    /\ t \in Children
    /\ tasks[t].pc # "new"
    /\ \A u \in Children : u > t => tasks[u].pc = "new"

\* gather notes each child that is done in this step
child_done(t) ==
    IF t \in Children /\ tasks'[t].pc = "done"
    THEN [batch EXCEPT !.arrival = Append(@, t - MaxCmds)]
    ELSE batch

\* A finished admin command sends its answer, and a finished bulk call
\* hands over its result, before anything else is looked at: that step
\* changes nothing another coroutine reads, so no behaviour is lost.
Settled ==
    /\ \A t \in CmdTasks : tasks[t].pc # "done"
    /\ batch.pc # "done"

\* a wait that gives up on a child whose activation does not return
gather_with_timeout(children) == \A t \in children : tasks[t].pc \in {"done", "hung"}

\* a wait that ends with the first child that is done
gather_first_completed(children) == \E t \in children : tasks[t].pc = "done"

\* await asyncio.gather(*tasks, return_exceptions=True): it ends when every
\* child is done, and no exception of a child ends it earlier
gather_returns(children) == \A t \in children : tasks[t].pc = "done"

\* gather has its last result: the bulk call is woken and sorts the
\* results before anything else is looked at. That step reads the children
\* only and writes the result only, so no behaviour is lost.
GatherReady == batch.pc = "gather" /\ gather_returns(Children)

\* a new command, or a bulk call, can start
CanStart == Settled /\ ~GatherReady /\ ~Dispatching

\* the suspended coroutine t can go on
CanRun(t) == Settled /\ ~GatherReady /\ (~Dispatching \/ LastStarted(t))

(* ----------------------- admin commands ------------------------------- *)
NewTask(op, cog_path) == [IdleTask EXCEPT !.op = op, !.cog_path = cog_path]

\* !load_cog <cog_path>: loader.load_cog(cog_path) up to its await
LoadCmd(t, cog_path) ==
    /\ tasks[t].pc = "idle"
    /\ CanStart
    /\ tasks' = [tasks EXCEPT ![t] = load_cog_call(NewTask("load", cog_path))]
    /\ UNCHANGED <<loaded_cogs, extensions, batch>>

\* !unload_cog <cog_path>: loader.unload_cog(cog_path) up to its await
UnloadCmd(t, cog_path) ==
    /\ tasks[t].pc = "idle"
    /\ CanStart
    /\ tasks' = [tasks EXCEPT ![t] = unload_cog_call(NewTask("unload", cog_path))]
    /\ UNCHANGED <<loaded_cogs, extensions, batch>>

\* !reload_cog <cog_path>: loader.reload_cog(cog_path) up to its await
ReloadCmd(t, cog_path) ==
    /\ tasks[t].pc = "idle"
    /\ CanStart
    /\ tasks' = [tasks EXCEPT ![t] = reload_cog_call(NewTask("reload", cog_path))]
    /\ UNCHANGED <<loaded_cogs, extensions, batch>>

\* the command sends its answer and ends
CmdDone(t) ==
    /\ t \in CmdTasks
    /\ tasks[t].pc = "done"
    /\ tasks' = [tasks EXCEPT ![t] = IdleTask]
    /\ UNCHANGED <<loaded_cogs, extensions, batch>>

(* ------------------ the host primitives return ------------------------ *)
\* load_extension returns: setup() ran and the name is entered in the
\* extension table; load_cog appends and returns True
LoadOk(t) ==
    /\ tasks[t].pc = "load_extension"
    /\ CanRun(t)
    /\ Len(loaded_cogs) < MaxLoaded
    /\ extensions' = extensions \cup {tasks[t].cog_path}
    /\ loaded_cogs' = load_cog_append(loaded_cogs, tasks[t].cog_path)
    /\ tasks' = [tasks EXCEPT ![t] = Finished(@, "True", "none")]
    /\ batch' = child_done(t)

\* load_extension raises: the module is not found, has no setup(), or its
\* import or setup() failed
LoadRaises(t, exc) ==
    /\ tasks[t].pc = "load_extension"
    /\ CanRun(t)
    /\ tasks' = [tasks EXCEPT ![t] = Finished(@, load_cog_except(exc), exc)]
    /\ batch' = child_done(t)
    /\ UNCHANGED <<loaded_cogs, extensions>>

\* unload_extension returns: the name is dropped from the extension table;
\* unload_cog removes it from the list and returns True
UnloadOk(t) ==
    /\ tasks[t].pc = "unload_extension"
    /\ CanRun(t)
    /\ extensions' = extensions \ {tasks[t].cog_path}
    /\ loaded_cogs' = unload_cog_remove(loaded_cogs, tasks[t].cog_path)
    /\ tasks' = [tasks EXCEPT ![t] = Finished(@, "True", "none")]
    /\ UNCHANGED batch

\* unload_extension raises an unexpected fault
UnloadRaises(t, exc) ==
    /\ tasks[t].pc = "unload_extension"
    /\ CanRun(t)
    /\ tasks' = [tasks EXCEPT ![t] = Finished(@, unload_cog_except(exc), exc)]
    /\ UNCHANGED <<loaded_cogs, extensions, batch>>

\* reload_extension returns: the new module is in the extension table;
\* reload_cog returns True
ReloadOk(t) ==
    /\ tasks[t].pc = "reload_extension"
    /\ CanRun(t)
    /\ extensions' = extensions \cup {tasks[t].cog_path}
    /\ loaded_cogs' = reload_cog_keep(loaded_cogs, tasks[t].cog_path)
    /\ tasks' = [tasks EXCEPT ![t] = Finished(@, "True", "none")]
    /\ batch' = child_done(t)

\* reload_extension raises: the new module failed, the old one is put back
\* in the extension table
ReloadRaises(t, exc) ==
    /\ tasks[t].pc = "reload_extension"
    /\ CanRun(t)
    /\ extensions' = extensions \cup {tasks[t].cog_path}
    /\ loaded_cogs' = reload_cog_keep(loaded_cogs, tasks[t].cog_path)
    /\ tasks' = [tasks EXCEPT ![t] = Finished(@, reload_cog_except(exc), exc)]
    /\ batch' = child_done(t)

\* the setup() of the extension never finishes: load_extension or
\* reload_extension does not return to this coroutine, ever
Hang(t) ==
    /\ tasks[t].pc \in {"load_extension", "reload_extension"}
    /\ tasks' = [tasks EXCEPT ![t].pc = "hung"]
    /\ UNCHANGED <<loaded_cogs, extensions, batch>>

(* ------------------------ bulk operations ----------------------------- *)
\* the loop recording the successes only
RECURSIVE collect_success_only(_, _)
collect_success_only(results, gathered) ==
    IF gathered = <<>> THEN results
    ELSE LET r == Head(gathered)
         IN  collect_success_only(
                 IF r.result = "True"
                 THEN [results EXCEPT !.success = Append(@, r.cog_path)]
                 ELSE results,
                 Tail(gathered))

\* the loop over the gathered results: an exception is skipped, a pair
\* (path, success) goes to 'success' or to 'failed'
RECURSIVE collect(_, _)
collect(results, gathered) ==
    IF gathered = <<>> THEN results
    ELSE LET r == Head(gathered)
         IN  collect(
                 IF r.result = "raise" THEN results
                 ELSE IF r.result = "True"
                      THEN [results EXCEPT !.success = Append(@, r.cog_path)]
                      ELSE [results EXCEPT !.failed = Append(@, r.cog_path)],
                 Tail(gathered))

\* a bulk call that never returns before gather
no_early_return(items) == FALSE

\* 'if not cog_files: return results', 'if not cogs_to_reload: return results'
nothing_to_dispatch(items) == items = <<>>

\* load_all_cogs up to asyncio.gather: discovery, the early return, one
\* load_single_cog per file
LoadAllCall(disk) ==
    /\ batch.pc = "idle"
    /\ CanStart
    /\ LET cog_files == _get_cog_files(disk)
           results == [NoResults EXCEPT !.total = Len(cog_files)]
       IN  IF nothing_to_dispatch(cog_files)
           THEN /\ batch' = [IdleBatch EXCEPT !.op = "load_all", !.pc = "done",
                                             !.results = results, !.disk = disk]
                /\ UNCHANGED tasks
           ELSE /\ batch' = [IdleBatch EXCEPT !.op = "load_all", !.pc = "gather",
                                             !.n = Len(cog_files), !.results = results,
                                             !.disk = disk]
                /\ tasks' = [t \in TaskIds |->
                               IF t \in ChildTasks /\ t - MaxCmds <= Len(cog_files)
                               THEN [IdleTask EXCEPT !.op = "load", !.pc = "new",
                                                     !.file_path = cog_files[t - MaxCmds]]
                               ELSE tasks[t]]
    /\ UNCHANGED <<loaded_cogs, extensions>>

\* reload_all_cogs up to asyncio.gather: the count, the copy of the list,
\* the early return, one reload_single_cog per copied path
ReloadAllCall ==
    /\ batch.pc = "idle"
    /\ CanStart
    /\ LET results == [NoResults EXCEPT !.total = Len(loaded_cogs)]
           cogs_to_reload == loaded_cogs
       IN  IF nothing_to_dispatch(cogs_to_reload)
           THEN /\ batch' = [IdleBatch EXCEPT !.op = "reload_all", !.pc = "done",
                                             !.results = results]
                /\ UNCHANGED tasks
           ELSE /\ batch' = [IdleBatch EXCEPT !.op = "reload_all", !.pc = "gather",
                                             !.n = Len(cogs_to_reload),
                                             !.results = results,
                                             !.cogs_to_reload = cogs_to_reload]
                /\ tasks' = [t \in TaskIds |->
                               IF t \in ChildTasks /\ t - MaxCmds <= Len(cogs_to_reload)
                               THEN [IdleTask EXCEPT !.op = "reload", !.pc = "new",
                                                     !.cog_path = cogs_to_reload[t - MaxCmds]]
                               ELSE tasks[t]]
    /\ UNCHANGED <<loaded_cogs, extensions>>

\* load_single_cog starts: the module path of its file, then load_cog
LoadChildStart(t) ==
    /\ batch.pc = "gather"
    /\ Settled
    /\ t \in Children
    /\ tasks[t].pc = "new"
    /\ tasks[t].op = "load"
    /\ \A u \in Children : u < t => tasks[u].pc # "new"
    /\ LET module_path == _path_to_module(tasks[t].file_path)
       IN  tasks' = [tasks EXCEPT ![t] = load_cog_call([@ EXCEPT !.cog_path = module_path])]
    /\ batch' = child_done(t)
    /\ UNCHANGED <<loaded_cogs, extensions>>

\* reload_single_cog starts: reload_cog
ReloadChildStart(t) ==
    /\ batch.pc = "gather"
    /\ Settled
    /\ t \in Children
    /\ tasks[t].pc = "new"
    /\ tasks[t].op = "reload"
    /\ \A u \in Children : u < t => tasks[u].pc # "new"
    /\ tasks' = [tasks EXCEPT ![t] = reload_cog_call(@)]
    /\ batch' = child_done(t)
    /\ UNCHANGED <<loaded_cogs, extensions>>

\* the results in the order in which the children came to be done
as_completed_results(arrival) ==
    [k \in 1 .. Len(arrival) |-> tasks[Child(arrival[k])]]

\* the list asyncio.gather returns: one result per child, in the order in
\* which the coroutines were handed to it
gather_results(arrival) ==
    [k \in 1 .. Len(arrival) |-> tasks[Child(k)]]

\* asyncio.gather returns once every child is done; the results are
\* sorted into success and failed in the order of the children
BulkReturn ==
    /\ batch.pc = "gather"
    /\ Settled
    /\ gather_returns(Children)
    /\ batch' = [batch EXCEPT !.pc = "done",
                    !.results = collect(@, gather_results(batch.arrival))]
    /\ UNCHANGED <<loaded_cogs, extensions, tasks>>

\* the caller of the bulk operation has its result; the coroutines end
BulkDone ==
    /\ batch.pc = "done"
    /\ batch' = IdleBatch
    /\ tasks' = [t \in TaskIds |-> IF t \in ChildTasks THEN IdleTask ELSE tasks[t]]
    /\ UNCHANGED <<loaded_cogs, extensions>>

(* ------------------------ the command surface ------------------------ *)
\* a check that lets everyone pass
has_permissions_unchecked(administrator) == TRUE

\* @commands.has_permissions(administrator=True): the check discord.py runs
\* before the callback of the command
has_permissions(administrator) == administrator

\* the check failed: discord.py raises MissingPermissions without calling
\* the callback, on_command_error sends the refusal
on_command_error(t, command) ==
    /\ tasks' = [tasks EXCEPT ![t] =
                    Finished([IdleTask EXCEPT !.op = command],
                             "MissingPermissions", "MissingPermissions")]
    /\ UNCHANGED <<loaded_cogs, extensions, batch>>

\* the callback of !loaded_cogs: get_loaded_cogs(), the module paths joined
\* into the embed, then await ctx.send(embed=embed)
LoadedCogsCmd(t) ==
    /\ tasks' = [tasks EXCEPT ![t] =
                    [IdleTask EXCEPT !.op = "loaded_cogs", !.pc = "ctx_send",
                                     !.loaded = get_loaded_cogs,
                                     !.embed = deref(get_loaded_cogs)]]
    /\ UNCHANGED <<loaded_cogs, extensions, batch>>

\* ctx.send of !loaded_cogs returns
SendOk(t) ==
    /\ tasks[t].pc = "ctx_send"
    /\ CanRun(t)
    /\ tasks' = [tasks EXCEPT ![t] = Finished(@, "sent", "none")]
    /\ UNCHANGED <<loaded_cogs, extensions, batch>>

\* a member types !loaded_cogs
LoadedCogsCommand(t, administrator) ==
    /\ tasks[t].pc = "idle"
    /\ CanStart
    /\ IF has_permissions(administrator)
       THEN LoadedCogsCmd(t)
       ELSE on_command_error(t, "loaded_cogs")

\* a member types !load_cog <cog_path>
LoadCogCommand(t, cog_path, administrator) ==
    /\ tasks[t].pc = "idle"
    /\ CanStart
    /\ IF has_permissions(administrator)
       THEN LoadCmd(t, cog_path)
       ELSE on_command_error(t, "load_cog")

\* a member types !unload_cog <cog_path>
UnloadCogCommand(t, cog_path, administrator) ==
    /\ tasks[t].pc = "idle"
    /\ CanStart
    /\ IF has_permissions(administrator)
       THEN UnloadCmd(t, cog_path)
       ELSE on_command_error(t, "unload_cog")

\* a member types !reload_cog <cog_path>
ReloadCogCommand(t, cog_path, administrator) ==
    /\ tasks[t].pc = "idle"
    /\ CanStart
    /\ IF has_permissions(administrator)
       THEN ReloadCmd(t, cog_path)
       ELSE on_command_error(t, "reload_cog")

\* a member types !reload_all_cogs: the callback announces the reload and
\* calls loader.reload_all_cogs()
ReloadAllCogsCommand(t, administrator) ==
    /\ tasks[t].pc = "idle"
    /\ CanStart
    /\ IF has_permissions(administrator)
       THEN ReloadAllCall
       ELSE on_command_error(t, "reload_all_cogs")

LoadFaults == {"ExtensionNotFound", "NoEntryPointError", "ExtensionFailed"}
UnloadFaults == {"ExtensionFailed"}
ReloadFaults == {"ExtensionNotFound", "NoEntryPointError", "ExtensionFailed"}

\* the fault of an activation in a child of a bulk call, where a command
\* is in flight beside it: every fault goes through the same handlers as
\* in the command and makes the child return (path, False)
ChildFaults == {"ExtensionFailed"}

\* the single-item operations alone: admin commands in flight together
NextCmds ==
    \/ \E t \in CmdTasks, cog_path \in CogPaths : LoadCmd(t, cog_path)
    \/ \E t \in CmdTasks, cog_path \in CogPaths : UnloadCmd(t, cog_path)
    \/ \E t \in CmdTasks, cog_path \in CogPaths : ReloadCmd(t, cog_path)
    \/ \E t \in CmdTasks : CmdDone(t)
    \/ \E t \in CmdTasks : LoadOk(t)
    \/ \E t \in CmdTasks, exc \in LoadFaults : LoadRaises(t, exc)
    \/ \E t \in CmdTasks : UnloadOk(t)
    \/ \E t \in CmdTasks, exc \in UnloadFaults : UnloadRaises(t, exc)
    \/ \E t \in CmdTasks : ReloadOk(t)
    \/ \E t \in CmdTasks, exc \in ReloadFaults : ReloadRaises(t, exc)

SpecCmds == Init /\ [][NextCmds]_vars

\* the bulk operations, with one admin command in flight beside them
BulkCmdTasks == {1}

Next ==
    \/ \E t \in BulkCmdTasks, cog_path \in CogPaths : LoadCmd(t, cog_path)
    \/ \E t \in BulkCmdTasks, cog_path \in CogPaths : UnloadCmd(t, cog_path)
    \/ \E t \in BulkCmdTasks, cog_path \in CogPaths : ReloadCmd(t, cog_path)
    \/ \E t \in BulkCmdTasks : CmdDone(t)
    \/ \E t \in TaskIds : LoadOk(t)
    \/ \E t \in BulkCmdTasks, exc \in LoadFaults : LoadRaises(t, exc)
    \/ \E t \in ChildTasks, exc \in ChildFaults : LoadRaises(t, exc)
    \/ \E t \in TaskIds : UnloadOk(t)
    \/ \E t \in TaskIds, exc \in UnloadFaults : UnloadRaises(t, exc)
    \/ \E t \in TaskIds : ReloadOk(t)
    \/ \E t \in BulkCmdTasks, exc \in ReloadFaults : ReloadRaises(t, exc)
    \/ \E t \in ChildTasks, exc \in ChildFaults : ReloadRaises(t, exc)
    \/ \E disk \in Disks : LoadAllCall(disk)
    \/ ReloadAllCall
    \/ \E t \in ChildTasks : LoadChildStart(t)
    \/ \E t \in ChildTasks : ReloadChildStart(t)
    \/ BulkReturn
    \/ BulkDone

Spec == Init /\ [][Next]_vars

\* the bulk operations alone, one after the other
NextBulk ==
    \/ \E disk \in Disks : LoadAllCall(disk)
    \/ ReloadAllCall
    \/ \E t \in ChildTasks : LoadChildStart(t)
    \/ \E t \in ChildTasks : ReloadChildStart(t)
    \/ \E t \in ChildTasks : LoadOk(t)
    \/ \E t \in ChildTasks, exc \in LoadFaults : LoadRaises(t, exc)
    \/ \E t \in ChildTasks : ReloadOk(t)
    \/ \E t \in ChildTasks, exc \in ReloadFaults : ReloadRaises(t, exc)
    \/ BulkReturn
    \/ BulkDone

SpecBulk == Init /\ [][NextBulk]_vars

\* the commands of the admin cog, typed by members with and without the
\* administrator permission: one command in flight beside a reload_all_cogs
NextSurface ==
    \/ \E t \in BulkCmdTasks, administrator \in BOOLEAN : LoadedCogsCommand(t, administrator)
    \/ \E t \in BulkCmdTasks, cog_path \in CogPaths, administrator \in BOOLEAN :
          LoadCogCommand(t, cog_path, administrator)
    \/ \E t \in BulkCmdTasks, cog_path \in CogPaths, administrator \in BOOLEAN :
          UnloadCogCommand(t, cog_path, administrator)
    \/ \E t \in BulkCmdTasks, cog_path \in CogPaths, administrator \in BOOLEAN :
          ReloadCogCommand(t, cog_path, administrator)
    \/ \E t \in BulkCmdTasks, administrator \in BOOLEAN : ReloadAllCogsCommand(t, administrator)
    \/ \E t \in BulkCmdTasks : SendOk(t)
    \/ \E t \in BulkCmdTasks : CmdDone(t)
    \/ \E t \in BulkCmdTasks \cup ChildTasks : LoadOk(t)
    \/ \E t \in BulkCmdTasks, exc \in LoadFaults : LoadRaises(t, exc)
    \/ \E t \in ChildTasks, exc \in ChildFaults : LoadRaises(t, exc)
    \/ \E t \in BulkCmdTasks : UnloadOk(t)
    \/ \E t \in BulkCmdTasks, exc \in UnloadFaults : UnloadRaises(t, exc)
    \/ \E t \in BulkCmdTasks \cup ChildTasks : ReloadOk(t)
    \/ \E t \in BulkCmdTasks, exc \in ReloadFaults : ReloadRaises(t, exc)
    \/ \E t \in ChildTasks, exc \in ChildFaults : ReloadRaises(t, exc)
    \/ \E t \in ChildTasks : ReloadChildStart(t)
    \/ BulkReturn
    \/ BulkDone

SpecSurface == Init /\ [][NextSurface]_vars

\* the host call child t is suspended in returns or raises
HostReturns(t) ==
    \/ LoadOk(t)
    \/ \E exc \in LoadFaults : LoadRaises(t, exc)
    \/ ReloadOk(t)
    \/ \E exc \in ReloadFaults : ReloadRaises(t, exc)

\* the bulk operations, with activations that may never return
NextLive ==
    \/ \E disk \in Disks : LoadAllCall(disk)
    \/ ReloadAllCall
    \/ \E t \in ChildTasks : LoadChildStart(t)
    \/ \E t \in ChildTasks : ReloadChildStart(t)
    \/ \E t \in ChildTasks : HostReturns(t)
    \/ \E t \in ChildTasks : Hang(t)
    \/ BulkReturn
    \/ BulkDone

\* the event loop runs every coroutine that can go on, and a host call
\* that is not hung returns or raises in the end; nothing makes anyone
\* call a bulk operation, and nothing makes a host call hang
SpecLive ==
    /\ Init
    /\ [][NextLive]_vars
    /\ \A t \in ChildTasks : WF_vars(LoadChildStart(t))
    /\ \A t \in ChildTasks : WF_vars(ReloadChildStart(t))
    /\ \A t \in ChildTasks : WF_vars(HostReturns(t))
    /\ WF_vars(BulkReturn)
    /\ WF_vars(BulkDone)

\* load_all_cogs over the cogs directories of DiscoveryDisks
NextDiscovery ==
    \/ \E disk \in DiscoveryDisks : LoadAllCall(disk)
    \/ \E t \in ChildTasks : LoadChildStart(t)
    \/ \E t \in ChildTasks : LoadOk(t)
    \/ \E t \in ChildTasks, exc \in LoadFaults : LoadRaises(t, exc)
    \/ BulkReturn
    \/ BulkDone

SpecDiscovery == Init /\ [][NextDiscovery]_vars

\* the cogs directories the bot may be started over
StartupDisks == DiscoveryDisks \cup Disks

\* setup_loader, called once by setup_hook: a new CogsLoader, its
\* loaded_cogs empty, no extension active in the new bot, then
\* load_all_cogs
setup_loader(disk) ==
    /\ loaded_cogs = <<>>
    /\ extensions = {}
    /\ LoadAllCall(disk)

\* the start of the bot: nothing runs beside load_all_cogs
NextStartup ==
    \/ \E disk \in StartupDisks : setup_loader(disk)
    \/ \E t \in ChildTasks : LoadChildStart(t)
    \/ \E t \in ChildTasks : LoadOk(t)
    \/ \E t \in ChildTasks, exc \in LoadFaults : LoadRaises(t, exc)
    \/ BulkReturn
    \/ BulkDone

SpecStartup == Init /\ [][NextStartup]_vars

(* ============================== claims ================================ *)
Members(list) == { list[k] : k \in 1 .. Len(list) }

\* how often x is in the list
Count(list, x) == Cardinality({k \in 1 .. Len(list) : list[k] = x})

\* C1: load, unload and reload never raise: whatever the host primitive
\* raises, a finished single-item operation has returned a boolean, and it
\* returned False whenever the primitive raised.
C1_NeverRaises ==
    \A t \in TaskIds :
        tasks[t].pc = "done" =>
            /\ tasks[t].result \in {"True", "False"}
            /\ tasks[t].exc # "none" => tasks[t].result = "False"

\* a reload that fell back to load_cog, whose load then failed, returned False
C1_Witness ==
    \E t \in TaskIds :
        /\ tasks[t].pc = "done"
        /\ tasks[t].op = "reload"
        /\ tasks[t].inner = "load_cog"
        /\ tasks[t].exc = "ExtensionFailed"
        /\ tasks[t].result = "False"

\* C2: in every reachable state each module path is at most once in
\* loaded_cogs.
C2_AtMostOnce == \A p \in CogPaths : Count(loaded_cogs, p) <= 1

\* C3: in load_all_cogs a fault in one activation does not keep the others
\* from being recorded: total is the number of files, no child ends with an
\* exception, a child whose activation raised is in failed, a child whose
\* activation succeeded is in success.
C3_FaultIsolated ==
    (batch.pc = "done" /\ batch.op = "load_all") =>
        /\ batch.results.total = batch.n
        /\ \A k \in 1 .. batch.n :
              LET c == tasks[Child(k)]
              IN  /\ c.result # "raise"
                  /\ c.exc # "none" => InList(batch.results.failed, c.cog_path)
                  /\ c.result = "True" => InList(batch.results.success, c.cog_path)

\* load_all_cogs over two files returned: one activation raised an
\* unexpected fault and is in failed, the other succeeded and is in success
C3_Witness ==
    /\ batch.pc = "done"
    /\ batch.op = "load_all"
    /\ batch.results.total = 2
    /\ \E j, k \in 1 .. batch.n :
          /\ tasks[Child(j)].exc = "ExtensionFailed"
          /\ tasks[Child(k)].result = "True"
          /\ tasks[Child(j)].cog_path # tasks[Child(k)].cog_path
          /\ batch.results.failed = <<tasks[Child(j)].cog_path>>
          /\ batch.results.success = <<tasks[Child(k)].cog_path>>

\* C4: for every result of load_all_cogs, total is the number of
\* discovered files, len(success) + len(failed) = total, success and failed
\* are disjoint, and together they are the module paths attempted.
C4_ResultPartition ==
    (batch.pc = "done" /\ batch.op = "load_all") =>
        /\ batch.results.total = batch.n
        /\ Len(batch.results.success) + Len(batch.results.failed) = batch.results.total
        /\ Members(batch.results.success) \cap Members(batch.results.failed) = {}
        /\ Members(batch.results.success) \cup Members(batch.results.failed)
              = { tasks[Child(k)].cog_path : k \in 1 .. batch.n }

\* C5: a load_cog of a module path that was not active, once it has
\* returned True, leaves the path exactly once in loaded_cogs.
C5_LoadedExactlyOnce ==
    \A t \in TaskIds :
        (tasks[t].pc = "done" /\ tasks[t].op = "load" /\ tasks[t].result = "True")
            => Count(loaded_cogs, tasks[t].cog_path) = 1

\* C6: load_cog of a module path that is active returns False and leaves
\* loaded_cogs as it was.
C6_DuplicateLoadRejected ==
    [][\A t \in TaskIds :
          (tasks[t].pc \in {"idle", "new"} /\ tasks'[t].op = "load" /\ tasks'[t].pc # "new"
              /\ tasks'[t].cog_path \in extensions)
          => (tasks'[t].pc = "done" /\ tasks'[t].result = "False"
                /\ loaded_cogs' = loaded_cogs)]_vars

\* a load_cog of an active path has returned False, the path still once in
\* the list
C6_Witness ==
    \E t \in TaskIds :
        /\ tasks[t].pc = "done"
        /\ tasks[t].op = "load"
        /\ tasks[t].exc = "ExtensionAlreadyLoaded"
        /\ tasks[t].result = "False"
        /\ tasks[t].cog_path \in extensions
        /\ Count(loaded_cogs, tasks[t].cog_path) = 1

\* C7: unload_cog of an active module path, once it has returned True,
\* leaves the path out of loaded_cogs.
C7_UnloadRemoves ==
    \A t \in TaskIds :
        (tasks[t].pc = "done" /\ tasks[t].op = "unload" /\ tasks[t].result = "True")
            => ~InList(loaded_cogs, tasks[t].cog_path)

\* C8: unload_cog of a module path that is not active returns False and
\* leaves loaded_cogs as it was.
C8_UnloadInactiveRejected ==
    [][\A t \in TaskIds :
          (tasks[t].pc = "idle" /\ tasks'[t].op = "unload"
              /\ tasks'[t].cog_path \notin extensions)
          => (tasks'[t].pc = "done" /\ tasks'[t].result = "False"
                /\ loaded_cogs' = loaded_cogs)]_vars

\* an unload_cog of an inactive path has returned False beside a list that
\* is not empty
C8_Witness ==
    \E t \in TaskIds :
        /\ tasks[t].pc = "done"
        /\ tasks[t].op = "unload"
        /\ tasks[t].exc = "ExtensionNotLoaded"
        /\ tasks[t].result = "False"
        /\ loaded_cogs # <<>>

\* C9: every step of a reload_cog that found its module path active, the
\* call and the return of the swap, with success or with a fault, leaves
\* the members of loaded_cogs as they were.
C9_ReloadKeepsMembers ==
    [][\A t \in TaskIds :
          (tasks'[t] # tasks[t] /\ tasks'[t].op = "reload" /\ tasks'[t].pc # "new"
              /\ tasks'[t].inner = "none"
              /\ (tasks[t].pc = "reload_extension" \/ tasks'[t].cog_path \in extensions))
          => Members(loaded_cogs') = Members(loaded_cogs)]_vars

\* a reload_cog of a listed, active path has failed with an unexpected fault
C9_Witness ==
    \E t \in TaskIds :
        /\ tasks[t].pc = "done"
        /\ tasks[t].op = "reload"
        /\ tasks[t].inner = "none"
        /\ tasks[t].exc = "ExtensionFailed"
        /\ InList(loaded_cogs, tasks[t].cog_path)

\* what load_cog does in one step of coroutine t, for a module path that
\* is not active when it is called: the call suspends in the activation
\* and changes nothing; the activation's return appends the path, makes it
\* active and gives True, its fault changes nothing and gives False
LoadStep(t) ==
    /\ (tasks[t].pc \in {"idle", "new"} /\ tasks'[t].cog_path \notin extensions) =>
          /\ tasks'[t].pc = "load_extension"
          /\ loaded_cogs' = loaded_cogs
          /\ extensions' = extensions
    /\ tasks[t].pc = "load_extension" =>
          /\ tasks'[t].pc = "done"
          /\ IF tasks'[t].exc = "none"
             THEN /\ tasks'[t].result = "True"
                  /\ loaded_cogs' = Append(loaded_cogs, tasks[t].cog_path)
                  /\ extensions' = extensions \cup {tasks[t].cog_path}
             ELSE /\ tasks'[t].result = "False"
                  /\ loaded_cogs' = loaded_cogs
                  /\ extensions' = extensions

\* C10: reload_cog of a module path that is not active goes through the
\* steps of load_cog: from the same state and with the same answer of the
\* host it gives the same boolean, the same loaded_cogs and the same
\* extension table.
C10_ReloadInactiveIsLoad ==
    [][\A t \in TaskIds :
          (tasks'[t] # tasks[t] /\ tasks'[t].op \in {"load", "reload"}
              /\ tasks'[t].pc # "new"
              /\ (tasks[t].pc = "load_extension"
                    \/ (tasks[t].pc \in {"idle", "new"} /\ tasks'[t].cog_path \notin extensions)))
          => LoadStep(t)]_vars

\* a reload_cog of an inactive path has returned True and the path is
\* listed and active
C10_Witness ==
    \E t \in TaskIds :
        /\ tasks[t].pc = "done"
        /\ tasks[t].op = "reload"
        /\ tasks[t].inner = "load_cog"
        /\ tasks[t].result = "True"
        /\ InList(loaded_cogs, tasks[t].cog_path)
        /\ tasks[t].cog_path \in extensions

\* C11: reload_all_cogs works on the copy of loaded_cogs taken at the
\* call: for every module path, reload_cog is started exactly once if the
\* path is in the copy and not at all if it is not; total is the length of
\* the copy; len(success) + len(failed) = total; a path that is not in the
\* copy is in neither list of the result, whatever was loaded meanwhile.
C11_ReloadAllSnapshot ==
    (batch.op = "reload_all" /\ batch.pc \in {"gather", "done"}) =>
        /\ \A p \in CogPaths :
              Cardinality({t \in Children : tasks[t].op = "reload" /\ tasks[t].cog_path = p})
                  = IF InList(batch.cogs_to_reload, p) THEN 1 ELSE 0
        /\ batch.results.total = Len(batch.cogs_to_reload)
        /\ batch.pc = "done" =>
              /\ Len(batch.results.success) + Len(batch.results.failed)
                    = batch.results.total
              /\ \A p \in CogPaths \ Members(batch.cogs_to_reload) :
                    /\ ~InList(batch.results.success, p)
                    /\ ~InList(batch.results.failed, p)

\* C12: a bulk operation starts its children without waiting for any of
\* them: as long as one is not started, the next start is the step that
\* can be taken, whatever the started ones are suspended in. And it hands
\* over a result only when every child it started is done, whether it
\* succeeded or failed.
C12_AllLaunchedAllAwaited ==
    /\ (batch.pc = "gather" /\ Settled /\ \E t \in Children : tasks[t].pc = "new") =>
          ENABLED (\E t \in ChildTasks : LoadChildStart(t) \/ ReloadChildStart(t))
    /\ batch.pc = "done" =>
          \A k \in 1 .. batch.n : tasks[Child(k)].pc = "done"

\* the second child of a bulk call has failed while the first is still
\* suspended in its activation, and the bulk call has not returned
C12_Witness ==
    /\ batch.pc = "gather"
    /\ batch.n = 2
    /\ tasks[Child(1)].pc \in {"load_extension", "reload_extension"}
    /\ tasks[Child(2)].pc = "done"
    /\ tasks[Child(2)].result = "False"

\* the module paths of the children with the given outcome, in the order
\* in which the children were handed to gather
RECURSIVE InDispatchOrder(_, _)
InDispatchOrder(k, outcome) ==
    IF k > batch.n THEN <<>>
    ELSE (IF tasks[Child(k)].result = outcome THEN <<tasks[Child(k)].cog_path>> ELSE <<>>)
            \o InDispatchOrder(k + 1, outcome)

\* C13: in the result of load_all_cogs and of reload_all_cogs, success is
\* the module paths of the children that returned True and failed those of
\* the children that returned False, each in the order in which the
\* children were handed to gather, in whatever order they came to be done.
C13_DispatchOrder ==
    batch.pc = "done" =>
        /\ batch.results.success = InDispatchOrder(1, "True")
        /\ batch.results.failed = InDispatchOrder(1, "False")

\* a bulk call returned two successes of different module paths, the
\* second child having been done before the first: success is in the order
\* of the children
C13_Witness ==
    /\ batch.pc = "done"
    /\ batch.arrival = <<2, 1>>
    /\ tasks[Child(1)].result = "True"
    /\ tasks[Child(2)].result = "True"
    /\ tasks[Child(1)].cog_path # tasks[Child(2)].cog_path
    /\ batch.results.success = <<tasks[Child(1)].cog_path, tasks[Child(2)].cog_path>>

\* C14: a bulk call with nothing to dispatch, load_all_cogs that discovers
\* no file or reload_all_cogs beside an empty loaded_cogs, returns at once
\* success = [], failed = [], total = 0: no coroutine is created, so no
\* host call is made, and loaded_cogs and the extension table are as they
\* were.
C14_NothingToDispatch ==
    [][(/\ batch.pc = "idle"
        /\ batch'.pc # "idle"
        /\ (batch'.n = 0 \/ (batch'.op = "reload_all" /\ loaded_cogs = <<>>)))
       => (/\ batch'.pc = "done"
           /\ batch'.results = NoResults
           /\ tasks' = tasks
           /\ extensions' = extensions
           /\ loaded_cogs' = loaded_cogs)]_vars

\* load_all_cogs found no file and returned the empty result beside a
\* loaded_cogs that is not empty
C14_Witness ==
    /\ batch.pc = "done"
    /\ batch.op = "load_all"
    /\ batch.n = 0
    /\ batch.results = NoResults
    /\ loaded_cogs # <<>>

TypedWithoutPermission(t) ==
    \/ LoadedCogsCommand(t, FALSE)
    \/ \E cog_path \in CogPaths : LoadCogCommand(t, cog_path, FALSE)
    \/ \E cog_path \in CogPaths : UnloadCogCommand(t, cog_path, FALSE)
    \/ \E cog_path \in CogPaths : ReloadCogCommand(t, cog_path, FALSE)
    \/ ReloadAllCogsCommand(t, FALSE)

\* the step appends x at the end of loaded_cogs
Appends(x) == loaded_cogs' = Append(loaded_cogs, x)

\* the step takes one entry x out of loaded_cogs and leaves the others in
\* their order
Removes(x) ==
    \E k \in 1 .. Len(loaded_cogs) :
        /\ loaded_cogs[k] = x
        /\ loaded_cogs' = SubSeq(loaded_cogs, 1, k - 1)
                             \o SubSeq(loaded_cogs, k + 1, Len(loaded_cogs))

\* coroutine t returns True from load_cog in this step
LoadSucceeds(t) ==
    /\ tasks[t].pc = "load_extension"
    /\ tasks'[t].pc = "done"
    /\ tasks'[t].result = "True"

\* coroutine t returns True from unload_cog in this step
UnloadSucceeds(t) ==
    /\ tasks[t].pc = "unload_extension"
    /\ tasks'[t].pc = "done"
    /\ tasks'[t].result = "True"

\* C16: loaded_cogs changes only in a step in which load_cog returns True,
\* which appends the loaded path at the end, or unload_cog returns True,
\* which takes the unloaded path out; every other step (a load, unload or
\* reload that returns False, a reload whose swap succeeds, get_loaded_cogs,
\* the loop over the gathered results) leaves it as it was. load_cog run by
\* reload_cog for an inactive path is a load.
C16_MutatedOnlyByLoadUnload ==
    [][/\ \A t \in TaskIds : LoadSucceeds(t) => Appends(tasks[t].cog_path)
       /\ \A t \in TaskIds :
             UnloadSucceeds(t) =>
                 IF InList(loaded_cogs, tasks[t].cog_path)
                 THEN Removes(tasks[t].cog_path)
                 ELSE loaded_cogs' = loaded_cogs
       /\ loaded_cogs' # loaded_cogs =>
             \E t \in TaskIds : LoadSucceeds(t) \/ UnloadSucceeds(t)]_vars

\* an unload_cog has returned True and took its path out of a list that
\* keeps the other path; a reload_all_cogs over the list is in flight
C16_Witness ==
    \E t \in CmdTasks :
        /\ tasks[t].pc = "done"
        /\ tasks[t].op = "unload"
        /\ tasks[t].result = "True"
        /\ Len(loaded_cogs) = 1
        /\ ~InList(loaded_cogs, tasks[t].cog_path)
        /\ batch.pc = "gather"
        /\ Len(batch.cogs_to_reload) = 2

\* C18: every command of the admin cog typed by a member without the
\* administrator permission ends in the refusal, MissingPermissions: no
\* load_cog, unload_cog, reload_cog, reload_all_cogs or get_loaded_cogs is
\* called, no other coroutine is touched, and loaded_cogs and the
\* extension table are as they were.
C18_AdminOnly ==
    [][\A t \in BulkCmdTasks :
          TypedWithoutPermission(t)
          => (/\ tasks'[t].pc = "done"
              /\ tasks'[t].result = "MissingPermissions"
              /\ tasks'[t].loaded = NoValue
              /\ \A u \in TaskIds \ {t} : tasks'[u] = tasks[u]
              /\ batch' = batch
              /\ loaded_cogs' = loaded_cogs
              /\ extensions' = extensions)]_vars

\* !reload_all_cogs typed without the permission beside a loaded_cogs that
\* is not empty: the refusal, and no bulk call
C18_Witness ==
    \E t \in CmdTasks :
        /\ tasks[t].pc = "done"
        /\ tasks[t].op = "reload_all_cogs"
        /\ tasks[t].result = "MissingPermissions"
        /\ loaded_cogs # <<>>
        /\ batch.pc = "idle"

\* every file below a directory, with its name and whether a directory
\* on the way down from the root begins with '_'
RECURSIVE FilesUnder(_, _, _)
FilesUnder(root, dir, hidden) ==
    { [path |-> joinpath(root, dir.files[i]), name |-> dir.files[i], hidden |-> hidden] :
          i \in 1 .. Len(dir.files) }
    \cup UNION { FilesUnder(joinpath(root, dir.dirs[j].name), dir.dirs[j].sub,
                            hidden \/ startswith_underscore(dir.dirs[j].name)) :
                    j \in 1 .. Len(dir.dirs) }

\* the files discovery is to return
Eligible(disk) ==
    IF ~disk.exists THEN {}
    ELSE { f.path : f \in { g \in FilesUnder(disk.root, disk.tree, FALSE) :
                               /\ endswith_py(g.name)
                               /\ ~startswith_underscore(g.name)
                               /\ ~g.hidden } }

\* C17: the files load_all_cogs works on are exactly the files below the
\* cogs directory that end in .py, whose name does not begin with '_' and
\* that lie below no directory whose name begins with '_', each once; for
\* a.py, b.py, _skip.py and _hidden/c.py the module paths are cogs.a and
\* cogs.b; a cogs directory that does not exist gives no file and the
\* empty result.
C17_Discovery ==
    (batch.op = "load_all" /\ batch.pc \in {"gather", "done"}) =>
        /\ { tasks[Child(k)].file_path : k \in 1 .. batch.n } = Eligible(batch.disk)
        /\ batch.n = Cardinality(Eligible(batch.disk))
        /\ (batch.disk.exists /\ batch.disk.tree = TreeScenario
               /\ \A k \in 1 .. batch.n : tasks[Child(k)].pc # "new")
            => [k \in 1 .. batch.n |-> tasks[Child(k)].cog_path]
                  = << <<"cogs","a">>, <<"cogs","b">> >>
        /\ ~batch.disk.exists => (batch.pc = "done" /\ batch.results = NoResults)

\* load_all_cogs over a.py, b.py, _skip.py and _hidden/c.py has started
\* its two children, for cogs.a and cogs.b
C17_Witness ==
    /\ batch.op = "load_all"
    /\ batch.pc = "gather"
    /\ batch.disk.exists
    /\ batch.disk.tree = TreeScenario
    /\ batch.n = 2
    /\ tasks[Child(1)].cog_path = <<"cogs","a">>
    /\ tasks[Child(2)].cog_path = <<"cogs","b">>

\* C20: two different files that load_all_cogs discovered never have the
\* same module path.
C20_UniqueIdentifiers ==
    (batch.op = "load_all" /\ batch.pc \in {"gather", "done"}) =>
        \A j, k \in 1 .. batch.n :
            (/\ tasks[Child(j)].pc # "new"
             /\ tasks[Child(k)].pc # "new"
             /\ tasks[Child(j)].file_path # tasks[Child(k)].file_path)
            => tasks[Child(j)].cog_path # tasks[Child(k)].cog_path

\* a child of the bulk call is suspended in a host call that never returns
SomeChildHung == \E t \in Children : tasks[t].pc = "hung"

\* C19: the Registry has no timeout and no cancellation. A bulk call
\* whose host calls all return or raise returns in the end; once one
\* activation hangs, the bulk call stays in gather for ever, whatever the
\* other children do.
C19_NoTimeout ==
    /\ (batch.pc = "gather") ~> (batch.pc = "done" \/ SomeChildHung)
    /\ [](SomeChildHung => [](batch.pc = "gather"))

\* one child of a bulk call hangs, the other is done, and the bulk call
\* has not returned
C19_Witness ==
    /\ batch.pc = "gather"
    /\ batch.n = 2
    /\ \E j, k \in 1 .. batch.n :
          /\ tasks[Child(j)].pc = "hung"
          /\ tasks[Child(k)].pc = "done"

\* no load, unload, reload or bulk call is in flight
Quiescent ==
    /\ batch.pc = "idle"
    /\ \A t \in TaskIds : tasks[t].pc = "idle"

\* C21: in every state in which no lifecycle operation is in flight, the
\* module paths in loaded_cogs are the module paths active in the host.
C21_FaithfulRecord == Quiescent => Members(loaded_cogs) = extensions

\* C22: when load_all_cogs, run over a new CogsLoader with nothing beside
\* it, returns, the module paths in loaded_cogs are those of the success
\* list, and no module path of the failed list is in loaded_cogs.
C22_StartupResultMatches ==
    (batch.op = "load_all" /\ batch.pc = "done") =>
        /\ Members(loaded_cogs) = Members(batch.results.success)
        /\ Members(batch.results.failed) \cap Members(loaded_cogs) = {}

\* C23: no step of reload_all_cogs or of one of its children changes which
\* module paths are in loaded_cogs or which are active in the host: while
\* the bulk call is in flight, only the steps of other callers do. So a
\* path that an unload_cog took out during the bulk call is not put back
\* by the bulk call.
C23_ReloadAllKeepsMembers ==
    [][(/\ batch.op = "reload_all"
        /\ \E t \in ChildTasks : tasks'[t] # tasks[t])
       => (/\ Members(loaded_cogs') = Members(loaded_cogs)
           /\ extensions' = extensions)]_vars

====
